---- MODULE Spec2Model ----
(***************************************************************************)
(* Interview practice partner: the dialogue controller (InterviewAgent,    *)
(* src/src/agent.py) and the provider gateway (LLMClient,                  *)
(* src/src/llm_client.py).                                                 *)
(*                                                                         *)
(* A Python str is a sequence of tokens (words, spaces, newlines); str     *)
(* methods (lower, in, split, strip) are computed on that sequence the way *)
(* Python computes them on characters.  None is the one-token sequence     *)
(* <<"<None>">>, a token no text contains.                                 *)
(***************************************************************************)
EXTENDS Integers, Sequences, FiniteSets, TLC

VARIABLES mock, client, gemini_configured, last_gemini_error,
          history, stage, role, question_count,
          op, arg, ret, pre, calls, turns, ctor

gateway_vars == <<mock, client, gemini_configured, last_gemini_error>>
agent_vars == <<history, stage, role, question_count>>
obs_vars == <<op, arg, ret, pre, calls, turns>>
vars == <<mock, client, gemini_configured, last_gemini_error,
          history, stage, role, question_count, op, arg, ret, pre, calls, turns, ctor>>

(***************************************************************************)
(* Bounds of the model.                                                    *)
(***************************************************************************)
MaxTurns == 4

(***************************************************************************)
(* Python values.                                                          *)
(***************************************************************************)
None == <<"<None>">>
NL == "\n"
SP == " "
Whitespace == {SP, NL}

\* str.lower(), token by token.
LowerTok(t) ==
    CASE t = "END" -> "end"
      [] t = "End" -> "end"
      [] t = "Interview" -> "interview"
      [] t = "INTERVIEW" -> "interview"
      [] t = "Stop" -> "stop"
      [] t = "Finish" -> "finish"
      [] t = "Give" -> "give"
      [] t = "Feedback" -> "feedback"
      [] t = "Sales" -> "sales"
      [] t = "SALES" -> "sales"
      [] t = "Engineer" -> "engineer"
      [] t = "Software" -> "software"
      [] t = "Hello" -> "hello"
      [] t = "I" -> "i"
      [] OTHER -> t

Lower(s) == [i \in 1..Len(s) |-> LowerTok(s[i])]

\* `sub in s`: sub occurs in s as a contiguous run.
Contains(s, sub) ==
    \E i \in 1..(Len(s) - Len(sub) + 1) : SubSeq(s, i, i + Len(sub) - 1) = sub

\* s.find(sub): the first index where sub occurs, 0 when it does not.
Find(s, sub) ==
    IF Contains(s, sub)
    THEN CHOOSE i \in 1..(Len(s) - Len(sub) + 1) :
            /\ SubSeq(s, i, i + Len(sub) - 1) = sub
            /\ \A j \in 1..(i - 1) : SubSeq(s, j, j + Len(sub) - 1) # sub
    ELSE 0

\* s.split(sep): the list of the pieces of s between occurrences of sep.
RECURSIVE Split(_, _)
Split(s, sep) ==
    IF ~Contains(s, sep)
    THEN <<s>>
    ELSE LET i == Find(s, sep)
         IN  <<SubSeq(s, 1, i - 1)>> \o Split(SubSeq(s, i + Len(sep), Len(s)), sep)

\* s.strip(): leading and trailing whitespace removed.
RECURSIVE LStrip(_)
LStrip(s) == IF s # <<>> /\ Head(s) \in Whitespace THEN LStrip(Tail(s)) ELSE s

RECURSIVE RStrip(_)
RStrip(s) ==
    IF s # <<>> /\ s[Len(s)] \in Whitespace THEN RStrip(SubSeq(s, 1, Len(s) - 1)) ELSE s

Strip(s) == RStrip(LStrip(s))

\* str(n) of an f-string, for the small numbers the prompts hold.
Str(n) == <<"0", "1", "2", "3", "4", "5", "6", "7", "8", "9">>[n + 1]

Msg(r, c) == [role |-> r, content |-> c]

(***************************************************************************)
(* Provider gateway: LLMClient.                                            *)
(***************************************************************************)
Value(v) == [kind |-> "value", val |-> v]
Raise(e) == [kind |-> "raise", val |-> <<e>>]

\* LLMClient.__init__: api_key and gemini_key say whether the key is present,
\* genai_ok whether the Gemini package imported and configured.
LLMClientInit(api_key, gemini_key, mock_arg, genai_ok) ==
    LET c == ~mock_arg /\ api_key
        g == gemini_key /\ genai_ok
    IN  [mock |-> mock_arg \/ (~api_key /\ ~g),
         client |-> c,
         gemini_configured |-> g,
         last_gemini_error |-> None]

Configs ==
    {LLMClientInit(a, g, m, k) : a \in BOOLEAN, g \in BOOLEAN, m \in BOOLEAN, k \in BOOLEAN}

\* The canned replies of the offline responder.
MockSales ==
    <<"Role Confirmed:", SP, "Sales Representative", NL, "Excellent choice.", SP,
      "I will be interviewing you for a Sales position. Let's begin.", SP, NL, NL,
      "Can you tell me about a time you had to sell a difficult product?">>
MockEngineer ==
    <<"Role Confirmed:", SP, "Software Engineer", NL, "Excellent choice.", SP,
      "I will be interviewing you for a Software Engineer position. Let's begin.", SP, NL, NL,
      "Can you describe a challenging technical problem you solved recently?">>
MockGeneric ==
    <<"That's an interesting point. Could you elaborate on that?", SP, "(Mock response)">>

\* LLMClient._get_mock_response
LastUserInput(messages) ==
    LET user_inputs == SelectSeq(messages, LAMBDA m : m.role = "user")
    IN  IF user_inputs # <<>> THEN Lower(user_inputs[Len(user_inputs)].content) ELSE <<>>

\* get_mock_response with the bug of the keywords looked for in the other order.
get_mock_response_engineer_first(messages) ==
    LET last_user_input == LastUserInput(messages)
    IN  IF Contains(last_user_input, <<"engineer">>) THEN MockEngineer
        ELSE IF Contains(last_user_input, <<"sales">>) THEN MockSales
        ELSE MockGeneric

get_mock_response(messages) ==
    LET last_user_input == LastUserInput(messages)
    IN  IF Contains(last_user_input, <<"sales">>) THEN MockSales
        ELSE IF Contains(last_user_input, <<"engineer">>) THEN MockEngineer
        ELSE MockGeneric

\* What one call of a provider does: "ok" with a text, "error" (an Exception with
\* the message err), or "interrupt" (a BaseException that `except Exception` does
\* not catch, the KeyboardInterrupt src/src/main.py:49 expects).
Ok(t) == [kind |-> "ok", text |-> t, err |-> <<>>, class |-> "ok"]
Interrupt == [kind |-> "interrupt", text |-> <<>>, err |-> <<>>, class |-> "interrupt"]
FailureKinds == {"quota", "transport", "auth", "notfound", "other"}
ErrStr(k) ==
    CASE k = "quota" -> <<"Error code: 429 - ", "insufficient_quota">>
      [] k = "transport" -> <<"Connection error.">>
      [] k = "auth" -> <<"400 ", "API key not valid", ". Please pass a valid API key.">>
      [] k = "notfound" -> <<"404", " models/gemini-pro is ", "not found">>
      [] OTHER -> <<"500 An internal error has occurred.">>
Fail(k) == [kind |-> "error", text |-> <<>>, err |-> ErrStr(k), class |-> k]

models_to_try == <<"gemini-1.5-flash", "gemini-1.5-pro", "gemini-pro">>
GEMINI_KEY_ERROR == <<"Gemini API Key is invalid.">>

GeminiAuthError(error_str) ==
    Contains(error_str, <<"API_KEY_INVALID">>) \/ Contains(error_str, <<"API key not valid">>)

\* One attempt of a call: the provider tried and how it ended.
Att(p, o) == [provider |-> p, outcome |-> o.class]
MockAtt == [provider |-> "mock", outcome |-> "ok"]

\* A get_response call in progress: pc is the provider it tries next ("openai",
\* "gemini" with variant i, "mock") or "done"; req the messages it was given;
\* attempts the attempts made so far; out what it returned or raised once done;
\* err the client's last_gemini_error.
Done(c, r) == [c EXCEPT !.pc = "done", !.out = r]

\* EnterGemini with the bug of a recorded error that is not cleared.
EnterGemini_keeps_error(c) == [c EXCEPT !.pc = "gemini", !.i = 1]

\* Entering LLMClient._get_gemini_response: the recorded error is cleared.
EnterGemini(c) == [c EXCEPT !.pc = "gemini", !.i = 1, !.err = None]

\* After the OpenAI attempt failed or was skipped: Gemini when it is configured,
\* the offline responder otherwise.
AfterOpenAI(cfg, c) ==
    IF cfg.gemini_configured THEN EnterGemini(c) ELSE [c EXCEPT !.pc = "mock"]

\* LLMClient.get_response up to its first provider call.
BeginCall(cfg, messages) ==
    LET c == [pc |-> "mock", i |-> 0, req |-> messages, attempts |-> <<>>,
              out |-> Value(None), err |-> cfg.last_gemini_error]
    IN  IF cfg.mock THEN c
        ELSE IF cfg.client THEN [c EXCEPT !.pc = "openai"]
        ELSE AfterOpenAI(cfg, c)

\* The OpenAI attempt of LLMClient.get_response, the provider doing o.
StepOpenAI(cfg, c, o) ==
    LET c1 == [c EXCEPT !.attempts = Append(@, Att("openai", o))]
    IN  CASE o.kind = "ok" -> Done(c1, Value(o.text))
          [] o.kind = "interrupt" -> Done(c1, Raise("KeyboardInterrupt"))
          [] OTHER -> AfterOpenAI(cfg, c1)

\* StepGemini with the bug of a retry: after a transport failure the same
\* variant is tried once more.
StepGemini_retries_transport(c, o) ==
    LET c1 == [c EXCEPT !.attempts = Append(@, Att(models_to_try[c.i], o))]
        again == /\ o.class = "transport"
                 /\ \/ c.attempts = <<>>
                    \/ c.attempts[Len(c.attempts)].provider # models_to_try[c.i]
    IN  CASE o.kind = "ok" -> Done(c1, Value(o.text))
          [] o.kind = "interrupt" -> Done(c1, Raise("KeyboardInterrupt"))
          [] OTHER ->
               IF GeminiAuthError(o.err)
               THEN [c1 EXCEPT !.err = GEMINI_KEY_ERROR, !.pc = "mock"]
               ELSE IF again THEN c1
               ELSE IF c.i < Len(models_to_try)
               THEN [c1 EXCEPT !.i = @ + 1]
               ELSE [c1 EXCEPT !.pc = "mock"]

\* StepGemini with the bug of an invalid key that is retried: the error is
\* recorded and the next variant is tried all the same.
StepGemini_retries_after_auth(c, o) ==
    LET c1 == [c EXCEPT !.attempts = Append(@, Att(models_to_try[c.i], o))]
    IN  CASE o.kind = "ok" -> Done(c1, Value(o.text))
          [] o.kind = "interrupt" -> Done(c1, Raise("KeyboardInterrupt"))
          [] OTHER ->
               LET c2 == IF GeminiAuthError(o.err)
                         THEN [c1 EXCEPT !.err = GEMINI_KEY_ERROR] ELSE c1
               IN  IF c.i < Len(models_to_try)
                   THEN [c2 EXCEPT !.i = @ + 1]
                   ELSE [c2 EXCEPT !.pc = "mock"]

\* One turn of the loop of LLMClient._get_gemini_response: variant c.i does o.
StepGemini(c, o) ==
    LET c1 == [c EXCEPT !.attempts = Append(@, Att(models_to_try[c.i], o))]
    IN  CASE o.kind = "ok" -> Done(c1, Value(o.text))
          [] o.kind = "interrupt" -> Done(c1, Raise("KeyboardInterrupt"))
          [] OTHER ->
               IF GeminiAuthError(o.err)
               THEN [c1 EXCEPT !.err = GEMINI_KEY_ERROR, !.pc = "mock"]
               ELSE IF c.i < Len(models_to_try)
               THEN [c1 EXCEPT !.i = @ + 1]
               ELSE [c1 EXCEPT !.pc = "mock"]

\* StepMock with the bug of a chain that has no last resort: it gives up.
StepMock_gives_up(c) ==
    Done([c EXCEPT !.attempts = Append(@, MockAtt)], Raise("RuntimeError"))

\* The offline responder answers.
StepMock(c) ==
    Done([c EXCEPT !.attempts = Append(@, MockAtt)], Value(get_mock_response(c.req)))

\* The call run to its end; oracle.primary is what the OpenAI call does,
\* oracle.gemini[i] what Gemini variant i does.
RECURSIVE RunCall(_, _, _)
RunCall(cfg, c, oracle) ==
    CASE c.pc = "done" -> c
      [] c.pc = "openai" -> RunCall(cfg, StepOpenAI(cfg, c, oracle.primary), oracle)
      [] c.pc = "gemini" -> RunCall(cfg, StepGemini(c, oracle.gemini[c.i]), oracle)
      [] OTHER -> RunCall(cfg, StepMock(c), oracle)

\* LLMClient.get_response
get_response(cfg, messages, oracle) == RunCall(cfg, BeginCall(cfg, messages), oracle)

(***************************************************************************)
(* Speech: LLMClient.transcribe_audio and LLMClient.text_to_speech, as     *)
(* calls in progress of the same shape as a get_response call.  req is the *)
(* audio file, respectively the text.                                      *)
(***************************************************************************)
MOCK_TRANSCRIPTION == <<"This is a mock transcription of the audio.">>
audio_models_to_try == <<"gemini-1.5-flash", "gemini-1.5-pro">>

\* The audio file can be read, or reading it raises.
AudioFiles == {<<"answer.wav">>, <<"missing.wav">>}
Readable(audio_file) == audio_file = <<"answer.wav">>

\* Python's truth value of an Optional[str].
Truthy(t) == t # None /\ t # <<>>

\* Entering LLMClient._transcribe_audio_gemini: the recorded error is cleared
\* and the audio is read once; when reading raises, it returns None, and so
\* does transcribe_audio.
EnterGeminiAudio(c) ==
    LET c1 == [c EXCEPT !.err = None]
    IN  IF Readable(c.req) THEN [c1 EXCEPT !.pc = "gemini_audio", !.i = 1]
        ELSE Done(c1, Value(None))

\* After the Whisper attempt failed or was skipped.
AfterWhisper(cfg, c) ==
    IF cfg.gemini_configured THEN EnterGeminiAudio(c) ELSE Done(c, Value(None))

\* BeginTranscribe with the bug of a mock flag that is not looked at.
BeginTranscribe_ignores_mock(cfg, audio_file) ==
    LET c == [pc |-> "done", i |-> 0, req |-> audio_file, attempts |-> <<>>,
              out |-> Value(None), err |-> cfg.last_gemini_error]
    IN  IF cfg.client THEN [c EXCEPT !.pc = "whisper"] ELSE AfterWhisper(cfg, c)

\* LLMClient.transcribe_audio up to its first provider call.
BeginTranscribe(cfg, audio_file) ==
    LET c == [pc |-> "done", i |-> 0, req |-> audio_file, attempts |-> <<>>,
              out |-> Value(None), err |-> cfg.last_gemini_error]
    IN  IF cfg.mock THEN Done(c, Value(MOCK_TRANSCRIPTION))
        ELSE IF cfg.client THEN [c EXCEPT !.pc = "whisper"]
        ELSE AfterWhisper(cfg, c)

\* The Whisper attempt of LLMClient.transcribe_audio, the provider doing o.
StepWhisper(cfg, c, o) ==
    LET c1 == [c EXCEPT !.attempts = Append(@, Att("whisper", o))]
    IN  CASE o.kind = "ok" -> Done(c1, Value(o.text))
          [] o.kind = "interrupt" -> Done(c1, Raise("KeyboardInterrupt"))
          [] OTHER -> AfterWhisper(cfg, c1)

\* One turn of the loop of LLMClient._transcribe_audio_gemini, and what
\* transcribe_audio makes of its result: a result that is not truthy is None.
StepGeminiAudio(c, o) ==
    LET c1 == [c EXCEPT !.attempts = Append(@, Att(audio_models_to_try[c.i], o))]
    IN  CASE o.kind = "ok" -> Done(c1, Value(IF Truthy(o.text) THEN o.text ELSE None))
          [] o.kind = "interrupt" -> Done(c1, Raise("KeyboardInterrupt"))
          [] OTHER ->
               IF GeminiAuthError(o.err)
               THEN Done([c1 EXCEPT !.err = GEMINI_KEY_ERROR], Value(None))
               ELSE IF c.i < Len(audio_models_to_try)
               THEN [c1 EXCEPT !.i = @ + 1]
               ELSE Done(c1, Value(None))

OUTPUT_PATH == <<"/tmp/tmp", "0001", ".mp3">>

\* LLMClient.text_to_speech up to the creation of the temporary file.
BeginSpeech(cfg, text) ==
    [pc |-> "tempfile", i |-> 0, req |-> text, attempts |-> <<>>,
     out |-> Value(None), err |-> cfg.last_gemini_error]

\* The temporary file is created, or creating it raises and the outer handler
\* returns None.
StepTempfile(cfg, c, o) ==
    LET c1 == [c EXCEPT !.attempts = Append(@, Att("tempfile", o))]
    IN  CASE o.kind = "ok" ->
               IF ~cfg.mock /\ cfg.client THEN [c1 EXCEPT !.pc = "tts"]
               ELSE [c1 EXCEPT !.pc = "gtts"]
          [] o.kind = "interrupt" -> Done(c1, Raise("KeyboardInterrupt"))
          [] OTHER -> Done(c1, Value(None))

\* StepTTS with the bug of a missing inner handler: the failure of the OpenAI
\* voice reaches the outer handler, which returns None.
StepTTS_no_fallback(c, o) ==
    LET c1 == [c EXCEPT !.attempts = Append(@, Att("tts", o))]
    IN  CASE o.kind = "ok" -> Done(c1, Value(OUTPUT_PATH))
          [] o.kind = "interrupt" -> Done(c1, Raise("KeyboardInterrupt"))
          [] OTHER -> Done(c1, Value(None))

\* The OpenAI voice: speech.create and stream_to_file, under one handler.
StepTTS(c, o) ==
    LET c1 == [c EXCEPT !.attempts = Append(@, Att("tts", o))]
    IN  CASE o.kind = "ok" -> Done(c1, Value(OUTPUT_PATH))
          [] o.kind = "interrupt" -> Done(c1, Raise("KeyboardInterrupt"))
          [] OTHER -> [c1 EXCEPT !.pc = "gtts"]

\* gTTS: the last path; its failure reaches the outer handler.
StepGTTS(c, o) ==
    LET c1 == [c EXCEPT !.attempts = Append(@, Att("gtts", o))]
    IN  CASE o.kind = "ok" -> Done(c1, Value(OUTPUT_PATH))
          [] o.kind = "interrupt" -> Done(c1, Raise("KeyboardInterrupt"))
          [] OTHER -> Done(c1, Value(None))

(***************************************************************************)
(* Dialogue controller: InterviewAgent.                                    *)
(***************************************************************************)
max_questions == 5

Stages == <<"ROLE_SELECTION", "INTERVIEW", "FEEDBACK", "FINISHED">>
\* InterviewStage: auto() numbers the members 1..4 in the order written.
StageValue(s) == CHOOSE i \in 1..Len(Stages) : Stages[i] = s

SYSTEM_PROMPT ==
    <<"You are a helpful assistant designed to help users prepare for job interviews.",
      SP, "Your goal is to facilitate a mock interview practice session.">>
GREETING ==
    <<"Hello! I'm your Interview Practice Partner.", NL, NL,
      "To get started, please tell me what job role you would like to practice for.">>
ROLE_INSTRUCTION ==
    <<"The user has provided input for the role they want to practice.", SP,
      "Start your response with 'Role Confirmed: [Role Name]' if a role is found,",
      SP, "otherwise just ask for clarification.">>
WRAP_UP_HINT ==
    <<"The user has answered several questions.", SP,
      "Suggest concluding the interview and moving to the feedback stage,",
      SP, "or ask one final challenging question.">>
FEEDBACK_PROMPT ==
    <<"The interview is now over.", SP,
      "Please provide detailed feedback on the user's performance.">>
FINISHED_MESSAGE ==
    <<"The interview session has finished.", SP,
      "Please restart the application to practice again.">>
MARKER == <<"Role Confirmed:">>

InterviewerPrompt(r) ==
    <<"You are an expert interviewer for a", SP>> \o r \o
    <<SP, "position.", SP, "Conduct a professional mock interview.", SP,
      "You can end the interview if the user asks to stop or if you have asked", SP,
      Str(max_questions), SP, "questions.">>

StartMessage(r) ==
    <<"Great! I will act as the interviewer for the", SP>> \o r \o
    <<SP, "position.", SP, "Let's begin.", NL, NL,
      "Tell me a little bit about yourself and why you are interested in this role.">>

\* InterviewAgent.__init__
AgentInit ==
    [history |-> <<>>, stage |-> "ROLE_SELECTION", role |-> None, question_count |-> 0]

\* The result of an operation on the agent a: the agent after it, what the call
\* returned or raised, the gateway calls it made, and the gateway's new
\* last_gemini_error.
Result(a, r, cs, e) == [a |-> a, ret |-> r, calls |-> cs, err |-> e]

\* start with the bug of a full reset: it also goes back to ROLE_SELECTION.
start_resets_stage(a, cfg) ==
    Result([a EXCEPT !.history = <<Msg("system", SYSTEM_PROMPT), Msg("assistant", GREETING)>>,
                     !.stage = "ROLE_SELECTION"],
           Value(GREETING), <<>>, cfg.last_gemini_error)

\* start with the bug of appending to the transcript it should replace.
start_keeps_history(a, cfg) ==
    Result([a EXCEPT !.history = @ \o <<Msg("system", SYSTEM_PROMPT), Msg("assistant", GREETING)>>],
           Value(GREETING), <<>>, cfg.last_gemini_error)

\* start with the bug of a role that is forgotten.
start_clears_role(a, cfg) ==
    Result([a EXCEPT !.history = <<Msg("system", SYSTEM_PROMPT), Msg("assistant", GREETING)>>,
                     !.role = None],
           Value(GREETING), <<>>, cfg.last_gemini_error)

\* InterviewAgent.start
start(a, cfg) ==
    Result([a EXCEPT !.history = <<Msg("system", SYSTEM_PROMPT), Msg("assistant", GREETING)>>],
           Value(GREETING), <<>>, cfg.last_gemini_error)

\* InterviewAgent.start takes no role: start(role=r) is a TypeError raised
\* before the body runs.
start_with_role(a, cfg, r) ==
    Result(a, Raise("TypeError"), <<>>, cfg.last_gemini_error)

\* ExtractRole with the bug of keeping the lines after the first.
ExtractRole_all_lines(response) == Strip(Split(response, MARKER)[2])

\* The role name _handle_role_selection takes from a reply holding the marker.
ExtractRole(response) ==
    LET parts == Split(response, MARKER)
        role_part == Strip(parts[2])
    IN  IF Contains(role_part, <<NL>>)
        THEN Strip(Split(role_part, <<NL>>)[1])
        ELSE role_part

\* Confirmed with the bug of an old transcript that is kept: the new prompt
\* and the opening message are appended to it.
Confirmed_keeps_transcript(a, r) ==
    [a EXCEPT !.role = r, !.stage = "INTERVIEW",
              !.history = @ \o <<Msg("system", InterviewerPrompt(r)),
                                 Msg("assistant", StartMessage(r))>>]

\* _handle_role_selection once the role r is confirmed: the stage moves on and
\* the transcript is rewritten.
Confirmed(a, r) ==
    [a EXCEPT !.role = r, !.stage = "INTERVIEW",
              !.history = <<Msg("system", InterviewerPrompt(r)),
                            Msg("assistant", StartMessage(r))>>]

\* Unconfirmed with the bug of a request built on the transcript itself, not
\* on a copy: the role instruction stays in the transcript.
Unconfirmed_keeps_instruction(a, response) ==
    [a EXCEPT !.history = Append(Append(@, Msg("system", ROLE_INSTRUCTION)),
                                 Msg("assistant", response))]

\* Unconfirmed with the bug of not recording the reply.
Unconfirmed_drops_reply(a, response) == a

\* _handle_role_selection when the reply holds no marker.
Unconfirmed(a, response) ==
    [a EXCEPT !.history = Append(@, Msg("assistant", response))]

\* InterviewAgent._handle_role_selection; a.history ends with the user's message.
\* `"Role Confirmed:" in response` is a TypeError when the reply is None.
handle_role_selection(a, cfg, oracle) ==
    LET messages == Append(a.history, Msg("system", ROLE_INSTRUCTION))
        g == get_response(cfg, messages, oracle)
        response == g.out.val
    IN  IF g.out.kind = "raise" THEN Result(a, g.out, <<g>>, g.err)
        ELSE IF response = None THEN Result(a, Raise("TypeError"), <<g>>, g.err)
        ELSE IF Contains(response, MARKER)
        THEN LET r == ExtractRole(response)
             IN  Result(Confirmed(a, r), Value(StartMessage(r)), <<g>>, g.err)
        ELSE Result(Unconfirmed(a, response), Value(response), <<g>>, g.err)

\* end_interview before its provider call: the stage is FEEDBACK and the
\* feedback request is in the transcript.
EnterFeedback(a) ==
    [a EXCEPT !.stage = "FEEDBACK",
              !.history = Append(@, Msg("system", FEEDBACK_PROMPT))]

\* LeaveFeedback with the bug of feedback that is returned but not recorded.
LeaveFeedback_drops_reply(a, response) == [a EXCEPT !.stage = "FINISHED"]

\* end_interview after its provider call returned response.
LeaveFeedback(a, response) ==
    [a EXCEPT !.history = Append(@, Msg("assistant", response)),
              !.stage = "FINISHED"]

\* end_interview with the bug of an ordinary reply asked for before the
\* feedback: two provider calls in one turn.
end_interview_after_reply(a, cfg, oracle) ==
    LET g0 == get_response(cfg, a.history, oracle)
        a1 == EnterFeedback(a)
        g == get_response([cfg EXCEPT !.last_gemini_error = g0.err], a1.history, oracle)
    IN  IF g.out.kind = "raise" THEN Result(a1, g.out, <<g0, g>>, g.err)
        ELSE Result(LeaveFeedback(a1, g.out.val), g.out, <<g0, g>>, g.err)

\* InterviewAgent.end_interview
end_interview(a, cfg, oracle) ==
    LET a1 == EnterFeedback(a)
        g == get_response(cfg, a1.history, oracle)
    IN  IF g.out.kind = "raise" THEN Result(a1, g.out, <<g>>, g.err)
        ELSE Result(LeaveFeedback(a1, g.out.val), g.out, <<g>>, g.err)

ExitCommands ==
    {<<"end", SP, "interview">>, <<"stop", SP, "interview">>,
     <<"give", SP, "me", SP, "feedback">>, <<"finish">>}

\* IsExit with the bug of a command that must be the whole input.
IsExit_whole_input(user_input) == Lower(user_input) \in ExitCommands

\* IsExit with the bug of matching the input as typed, not lower-cased.
IsExit_case_sensitive(user_input) == \E cmd \in ExitCommands : Contains(user_input, cmd)

\* The exit check of _handle_interview.
IsExit(user_input) == \E cmd \in ExitCommands : Contains(Lower(user_input), cmd)

\* Counted with the bug of not counting.
Counted_not(a) == a

\* The counter of _handle_interview.
Counted(a) == [a EXCEPT !.question_count = @ + 1]

\* InterviewRequest with the bug of a hint that comes one question early.
InterviewRequest_at_max(a) ==
    IF a.question_count >= max_questions
    THEN Append(a.history, Msg("system", WRAP_UP_HINT))
    ELSE a.history

\* The request of an ordinary interview turn: the transcript itself, or a copy
\* with the wrap-up hint once the counter is past max_questions.
InterviewRequest(a) ==
    IF a.question_count > max_questions
    THEN Append(a.history, Msg("system", WRAP_UP_HINT))
    ELSE a.history

\* InterviewAgent._handle_interview
handle_interview(a, cfg, oracle, user_input) ==
    IF IsExit(user_input) THEN end_interview(a, cfg, oracle)
    ELSE LET a1 == Counted(a)
             g == get_response(cfg, InterviewRequest(a1), oracle)
         IN  IF g.out.kind = "raise" THEN Result(a1, g.out, <<g>>, g.err)
             ELSE Result([a1 EXCEPT !.history = Append(@, Msg("assistant", g.out.val))],
                         g.out, <<g>>, g.err)

\* InterviewAgent._generate_response
generate_response(a, cfg, oracle) ==
    LET g == get_response(cfg, a.history, oracle)
    IN  IF g.out.kind = "raise" THEN Result(a, g.out, <<g>>, g.err)
        ELSE Result([a EXCEPT !.history = Append(@, Msg("assistant", g.out.val))],
                    g.out, <<g>>, g.err)

\* The user's message enters the transcript before the stage is looked at.
Heard(a, user_input) == [a EXCEPT !.history = Append(@, Msg("user", user_input))]

\* Closed with the bug of reopening the session.
Closed_reopens(a, cfg) ==
    Result([a EXCEPT !.stage = "ROLE_SELECTION", !.question_count = 0],
           Value(FINISHED_MESSAGE), <<>>, cfg.last_gemini_error)

\* The last branch of process_input: the session is closed.
Closed(a, cfg) == Result(a, Value(FINISHED_MESSAGE), <<>>, cfg.last_gemini_error)

\* InterviewAgent.process_input
process_input(a, cfg, oracle, user_input) ==
    LET a1 == Heard(a, user_input)
    IN  CASE a1.stage = "ROLE_SELECTION" -> handle_role_selection(a1, cfg, oracle)
          [] a1.stage = "INTERVIEW" -> handle_interview(a1, cfg, oracle, user_input)
          [] a1.stage = "FEEDBACK" -> generate_response(a1, cfg, oracle)
          [] OTHER -> Closed(a1, cfg)

(***************************************************************************)
(* Inputs: what the user types, what the providers answer.                 *)
(***************************************************************************)
UserInputs ==
    {<<"Hello">>,
     <<"Please", SP, "END", SP, "Interview">>}

Roles == {<<"Data Scientist">>, <<"Software Engineer">>}

ReplyConfirm == <<"Role Confirmed:", SP, "Software Engineer", NL, "Let's begin.">>
ReplyConfirmNL ==
    <<"Sure.", SP, "Role Confirmed:", NL, "Data Scientist", SP, NL, "Shall we start?", SP,
      "Say", SP, "Role Confirmed:", SP, "again to restart.">>
ReplyPlain == <<"Could you please clarify which role you are interested in?">>

Failures == {Fail(k) : k \in FailureKinds}

\* What the providers do during one turn of the controller.
AgentPrimary ==
    {Ok(ReplyConfirm), Ok(ReplyPlain), Ok(None), Fail("quota"), Interrupt}
AgentGemini ==
    {<<Fail("notfound"), Ok(ReplyConfirmNL), Fail("other")>>,
     <<Fail("other"), Fail("auth"), Fail("other")>>,
     <<Fail("transport"), Fail("quota"), Interrupt>>}
NoGemini == <<Fail("other"), Fail("other"), Fail("other")>>

\* Whether a call on cfg, with the primary provider doing p, gets to the Gemini
\* variants; when it does not, what they would do is not drawn.
SeesGemini(cfg, p) ==
    ~cfg.mock /\ cfg.gemini_configured /\ (cfg.client => p.kind = "error")
GeminiFor(cfg, p, geminis) == IF SeesGemini(cfg, p) THEN geminis ELSE {NoGemini}
Oracle(p, g) == [primary |-> p, gemini |-> g]

(***************************************************************************)
(* The state machine.                                                      *)
(***************************************************************************)
Agent == [history |-> history, stage |-> stage, role |-> role,
          question_count |-> question_count]
Cfg == [mock |-> mock, client |-> client, gemini_configured |-> gemini_configured,
        last_gemini_error |-> last_gemini_error]
Snapshot == [history |-> history, stage |-> stage, role |-> role,
             question_count |-> question_count, err |-> last_gemini_error]

\* The arguments and the environment of LLMClient(...): whether each key is
\* present, the mock flag the caller passed, whether the Gemini package is there
\* (which only matters with a Gemini key).
CtorArgs ==
    {c \in [api_key : BOOLEAN, gemini_key : BOOLEAN, mock : BOOLEAN, genai_ok : BOOLEAN] :
        ~c.gemini_key => c.genai_ok}
Constructed(c) == LLMClientInit(c.api_key, c.gemini_key, c.mock, c.genai_ok)

\* The client is built from ctor; Constructed(ctor) ranges over Configs.
InitClient ==
    \E c \in CtorArgs :
        /\ ctor = c
        /\ mock = Constructed(c).mock
        /\ client = Constructed(c).client
        /\ gemini_configured = Constructed(c).gemini_configured
        /\ last_gemini_error = Constructed(c).last_gemini_error

Init ==
    /\ InitClient
    /\ history = AgentInit.history
    /\ stage = AgentInit.stage
    /\ role = AgentInit.role
    /\ question_count = AgentInit.question_count
    /\ op = "init"
    /\ arg = <<>>
    /\ ret = Value(None)
    /\ pre = [history |-> AgentInit.history, stage |-> AgentInit.stage,
              role |-> AgentInit.role, question_count |-> AgentInit.question_count,
              err |-> None]
    /\ calls = <<>>
    /\ turns = 0

\* The state after an operation named o, called with x, whose result is r.
Apply(r, o, x) ==
    /\ history' = r.a.history
    /\ stage' = r.a.stage
    /\ role' = r.a.role
    /\ question_count' = r.a.question_count
    /\ last_gemini_error' = r.err
    /\ op' = o
    /\ arg' = x
    /\ ret' = r.ret
    /\ calls' = r.calls
    /\ pre' = Snapshot
    /\ UNCHANGED <<mock, client, gemini_configured, ctor>>

Start ==
    /\ Apply(start(Agent, Cfg), "start", <<>>)
    /\ UNCHANGED turns

StartWithRole ==
    \E r \in Roles :
        /\ Apply(start_with_role(Agent, Cfg, r), "start_role", r)
        /\ UNCHANGED turns

ProcessInput ==
    /\ turns < MaxTurns
    /\ \E u \in UserInputs :
         \E p \in AgentPrimary :
            \E g \in GeminiFor(Cfg, p, AgentGemini) :
               Apply(process_input(Agent, Cfg, Oracle(p, g), u), "process_input", u)
    /\ turns' = turns + 1

Next == Start \/ StartWithRole \/ ProcessInput

Spec == Init /\ [][Next]_vars

(***************************************************************************)
(* The gateway on its own: get_response called with any request, every     *)
(* provider free to answer or to fail in any way.                          *)
(***************************************************************************)
GatewayMessages ==
    {<<Msg("user", <<"I", SP, "want", SP, "to", SP, "be", SP, "a", SP,
                     "Software", SP, "Engineer">>)>>,
     <<Msg("system", SYSTEM_PROMPT), Msg("assistant", GREETING), Msg("user", <<"SALES">>)>>,
     <<Msg("system", SYSTEM_PROMPT), Msg("user", <<"Sales">>), Msg("assistant", ReplyPlain),
       Msg("user", <<"Hello">>)>>}

GatewayPrimary == {Ok(ReplyPlain), Ok(<<>>), Ok(None), Interrupt} \cup Failures
GatewayVariant == {Ok(ReplyPlain), Ok(<<>>), Interrupt} \cup Failures

\* The call in progress, the last of calls; none before the first call.
InCall == calls # <<>> /\ calls[Len(calls)].pc # "done"
Current == calls[Len(calls)]

\* The state after a step of the call of o that leaves it as c.
GatewayStepOf(o, c) ==
    /\ calls' = <<c>>
    /\ last_gemini_error' = c.err
    /\ op' = o
    /\ ret' = c.out
    /\ UNCHANGED <<mock, client, gemini_configured, agent_vars, arg, turns, ctor>>
GatewayStep(c) == GatewayStepOf("get_response", c)

CallGetResponse ==
    /\ ~InCall
    /\ \E m \in GatewayMessages : GatewayStep(BeginCall(Cfg, m))
    /\ pre' = Snapshot

TryOpenAI ==
    /\ InCall /\ Current.pc = "openai"
    /\ \E o \in GatewayPrimary : GatewayStep(StepOpenAI(Cfg, Current, o))
    /\ UNCHANGED pre

TryGemini ==
    /\ InCall /\ Current.pc = "gemini"
    /\ \E o \in GatewayVariant : GatewayStep(StepGemini(Current, o))
    /\ UNCHANGED pre

UseMock ==
    /\ InCall /\ Current.pc = "mock"
    /\ GatewayStep(StepMock(Current))
    /\ UNCHANGED pre

\* What the speech providers can do.
Transcript == <<"I solve problems using Python.">>
WhisperOutcomes == {Ok(Transcript), Ok(<<>>), Interrupt} \cup Failures
GeminiAudioOutcomes == {Ok(Transcript), Ok(<<>>), Ok(None), Interrupt} \cup Failures
SpeechOutcomes == {Ok(OUTPUT_PATH), Fail("quota"), Fail("transport"), Interrupt}
SpeechTexts == {ReplyPlain, <<>>}

CallTranscribe ==
    /\ ~InCall
    /\ \E f \in AudioFiles : GatewayStepOf("transcribe_audio", BeginTranscribe(Cfg, f))
    /\ pre' = Snapshot

\* Whisper cannot transcribe a file that cannot be read.
TryWhisper ==
    /\ InCall /\ Current.pc = "whisper"
    /\ \E o \in WhisperOutcomes :
         /\ Readable(Current.req) \/ o.kind = "error"
         /\ GatewayStepOf("transcribe_audio", StepWhisper(Cfg, Current, o))
    /\ UNCHANGED pre

TryGeminiAudio ==
    /\ InCall /\ Current.pc = "gemini_audio"
    /\ \E o \in GeminiAudioOutcomes :
         GatewayStepOf("transcribe_audio", StepGeminiAudio(Current, o))
    /\ UNCHANGED pre

CallTextToSpeech ==
    /\ ~InCall
    /\ \E t \in SpeechTexts : GatewayStepOf("text_to_speech", BeginSpeech(Cfg, t))
    /\ pre' = Snapshot

MakeTempfile ==
    /\ InCall /\ Current.pc = "tempfile"
    /\ \E o \in SpeechOutcomes :
         GatewayStepOf("text_to_speech", StepTempfile(Cfg, Current, o))
    /\ UNCHANGED pre

TryTTS ==
    /\ InCall /\ Current.pc = "tts"
    /\ \E o \in SpeechOutcomes : GatewayStepOf("text_to_speech", StepTTS(Current, o))
    /\ UNCHANGED pre

TryGTTS ==
    /\ InCall /\ Current.pc = "gtts"
    /\ \E o \in SpeechOutcomes : GatewayStepOf("text_to_speech", StepGTTS(Current, o))
    /\ UNCHANGED pre

NextGateway ==
    \/ CallGetResponse \/ TryOpenAI \/ TryGemini \/ UseMock
    \/ CallTranscribe \/ TryWhisper \/ TryGeminiAudio
    \/ CallTextToSpeech \/ MakeTempfile \/ TryTTS \/ TryGTTS

SpecGateway == Init /\ [][NextGateway]_vars

(***************************************************************************)
(* A session on the offline responder alone: no key is present, so the     *)
(* client is in mock mode whether the caller asked for it or not, and      *)
(* every reply is a canned one.  The session is long enough for the        *)
(* counter to pass max_questions.                                          *)
(***************************************************************************)
MaxOfflineTurns == 7

OfflineInputs ==
    {<<"Hello">>, <<"Software", SP, "Engineer">>, <<"SALES", SP, "engineer">>,
     <<"Please", SP, "END", SP, "Interview">>}

InitOffline == Init /\ ~ctor.api_key /\ ~ctor.gemini_key

\* No provider is asked in mock mode: the oracle is not looked at.
OfflineTurn ==
    /\ turns < MaxOfflineTurns
    /\ \E u \in OfflineInputs :
         Apply(process_input(Agent, Cfg, Oracle(Fail("transport"), NoGemini), u),
               "process_input", u)
    /\ turns' = turns + 1

NextOffline == Start \/ OfflineTurn

SpecOffline == InitOffline /\ [][NextOffline]_vars

(***************************************************************************)
(* Short offline sessions on what the user can type to end the interview:  *)
(* each command in some case, inside a sentence or inside a word, and      *)
(* inputs that come close to a command.                                    *)
(***************************************************************************)
MaxExitTurns == 3

ExitInputs ==
    {<<"Hello">>, <<"Software", SP, "Engineer">>,
     <<"Please", SP, "END", SP, "Interview">>,
     <<"Stop", SP, "Interview", SP, "now">>,
     <<"Give", SP, "me", SP, "Feedback">>,
     <<"I", SP, "am", SP, "Finish", "ed">>,
     <<"End", SP, "the", SP, "Interview">>,
     <<"Stop">>}

ExitTurn ==
    /\ turns < MaxExitTurns
    /\ \E u \in ExitInputs :
         Apply(process_input(Agent, Cfg, Oracle(Fail("transport"), NoGemini), u),
               "process_input", u)
    /\ turns' = turns + 1

NextExit == Start \/ ExitTurn

SpecExit == InitOffline /\ [][NextExit]_vars

(***************************************************************************)
(* Properties.  pre is the controller as it was before the last operation, *)
(* op and arg the operation and its input, ret what it returned or raised, *)
(* calls the get_response calls it made.                                   *)
(***************************************************************************)
Turn == op = "process_input"
\* The reply of the one provider call of the last operation.
Reply == calls[1].out.val
\* The last turn was taken in ROLE_SELECTION and its provider call returned a text.
RoleTurn ==
    /\ Turn /\ pre.stage = "ROLE_SELECTION"
    /\ Len(calls) = 1 /\ calls[1].out.kind = "value" /\ Reply # None
WithUserMessage(h, u) == Append(h, Msg("user", u))

\* C1: the stage never moves backward under ROLE_SELECTION < INTERVIEW <
\* FEEDBACK < FINISHED: after every operation (start, start with a role,
\* process_input) the stage is at or after the stage before the operation.
C1_StageMonotone == StageValue(pre.stage) <= StageValue(stage)
C1_Witness == op = "start" /\ pre.stage = "INTERVIEW" /\ turns >= 2

\* C2 as claimed: start() with no role always leaves stage = ROLE_SELECTION,
\* role unset and a transcript of exactly two entries (system, greeting),
\* whatever the state before.
C2_Original ==
    op = "start" =>
        /\ stage = "ROLE_SELECTION"
        /\ role = None
        /\ Len(history) = 2
        /\ history[1].role = "system"
        /\ history[2] = Msg("assistant", GREETING)
\* C2 as amended: start() with no role always leaves a transcript of exactly
\* two entries (the system message, then the assistant greeting) and returns
\* the greeting; it leaves stage, role and question_count as they were, so
\* stage = ROLE_SELECTION and role unset hold after it exactly when the stage
\* was ROLE_SELECTION before it.
C2_StartKeepsStage ==
    op = "start" =>
        /\ history = <<Msg("system", SYSTEM_PROMPT), Msg("assistant", GREETING)>>
        /\ ret = Value(GREETING)
        /\ stage = pre.stage
        /\ role = pre.role
        /\ question_count = pre.question_count
        /\ (pre.stage = "ROLE_SELECTION") <=> (stage = "ROLE_SELECTION" /\ role = None)
C2_Witness ==
    op = "start" /\ pre.stage = "FINISHED" /\ Len(pre.history) > 2 /\ Len(history) = 2

\* C3: start(role) with a role R skips ROLE_SELECTION: afterwards stage =
\* INTERVIEW, role = R, the transcript's first entry is the interviewer system
\* prompt containing R, and no provider call was made.
C3_StartWithRole ==
    op = "start_role" =>
        /\ ret.kind = "value"
        /\ stage = "INTERVIEW"
        /\ role = arg
        /\ Len(history) >= 1
        /\ history[1].role = "system"
        /\ Contains(history[1].content, arg)
        /\ calls = <<>>

\* The text of a reply after its first marker; a text up to its first marker;
\* the first line of a text.
AfterMarker(t) == SubSeq(t, Find(t, MARKER) + Len(MARKER), Len(t))
UpToMarker(t) == IF Contains(t, MARKER) THEN SubSeq(t, 1, Find(t, MARKER) - 1) ELSE t
FirstLine(t) == IF Contains(t, <<NL>>) THEN SubSeq(t, 1, Find(t, <<NL>>) - 1) ELSE t

\* C4 as claimed: in ROLE_SELECTION, when the reply holds the marker, the stage
\* becomes INTERVIEW and role is the trimmed first line of the text that
\* follows the marker.
C4_Original ==
    (RoleTurn /\ Contains(Reply, MARKER)) =>
        /\ stage = "INTERVIEW"
        /\ role = Strip(FirstLine(AfterMarker(Reply)))
\* C4 as amended: in ROLE_SELECTION, when the reply holds the marker, the stage
\* becomes INTERVIEW and role is the trimmed first line of the trimmed text
\* between the first marker and the next marker (or the end of the reply):
\* whitespace and newlines right after the marker are skipped before the first
\* line is taken.  For "Role Confirmed: Software Engineer", a newline and more
\* text, role = "Software Engineer".
C4_RoleFromMarker ==
    (RoleTurn /\ Contains(Reply, MARKER)) =>
        /\ stage = "INTERVIEW"
        /\ role = Strip(FirstLine(Strip(UpToMarker(AfterMarker(Reply)))))
        /\ (Reply = ReplyConfirm => role = <<"Software Engineer">>)
C4_Witness ==
    /\ RoleTurn /\ Reply = ReplyConfirmNL
    /\ stage = "INTERVIEW" /\ role = <<"Data Scientist">>

\* C5: in ROLE_SELECTION, when the reply holds no marker, stage stays
\* ROLE_SELECTION, role stays unset, the returned text is the reply, and the
\* reply is appended to the transcript as an assistant message, after the
\* user's message; on every such turn, however many came before.
C5_Unconfirmed ==
    (RoleTurn /\ ~Contains(Reply, MARKER)) =>
        /\ stage = "ROLE_SELECTION"
        /\ role = pre.role
        /\ role = None
        /\ ret = Value(Reply)
        /\ history = Append(WithUserMessage(pre.history, arg), Msg("assistant", Reply))
C5_Witness ==
    /\ RoleTurn /\ ~Contains(Reply, MARKER)
    /\ Len(pre.history) >= 4
    /\ pre.history[Len(pre.history)] = Msg("assistant", ReplyPlain)
    /\ pre.history[Len(pre.history) - 1].role = "user"
    /\ stage = "ROLE_SELECTION"

\* C6: in INTERVIEW, a turn whose input holds "end interview" in any letter
\* case makes exactly one provider call, the feedback call (the transcript, the
\* user's message and the feedback request), whatever question_count is; when
\* that call returns, the stage is FINISHED and the turn returns its reply.
C6_EndInterview ==
    (Turn /\ pre.stage = "INTERVIEW" /\ Contains(Lower(arg), <<"end", SP, "interview">>)) =>
        /\ Len(calls) = 1
        /\ calls[1].req = Append(WithUserMessage(pre.history, arg), Msg("system", FEEDBACK_PROMPT))
        /\ calls[1].out.kind = "value" => (stage = "FINISHED" /\ ret = calls[1].out)
C6_Witness ==
    /\ Turn /\ pre.stage = "INTERVIEW" /\ arg = <<"Please", SP, "END", SP, "Interview">>
    /\ pre.question_count > 0
    /\ stage = "FINISHED" /\ ret = Value(ReplyPlain)

\* The four exit phrases, each looked for in the lower-cased input.
ExitPhrase(u) ==
    \/ Contains(Lower(u), <<"end", SP, "interview">>)
    \/ Contains(Lower(u), <<"stop", SP, "interview">>)
    \/ Contains(Lower(u), <<"give", SP, "me", SP, "feedback">>)
    \/ Contains(Lower(u), <<"finish">>)

\* C7: question_count grows by exactly 1 on every turn in INTERVIEW whose input
\* matches no exit phrase, and is unchanged by every other operation.
C7_QuestionCount ==
    IF Turn /\ pre.stage = "INTERVIEW" /\ ~ExitPhrase(arg)
    THEN question_count = pre.question_count + 1
    ELSE question_count = pre.question_count
C7_Witness ==
    Turn /\ pre.stage = "INTERVIEW" /\ ~ExitPhrase(arg) /\ question_count = 2

\* C8 as claimed: in FINISHED, a turn returns the fixed closed-session message,
\* makes no provider call, and leaves stage, role, question_count and the
\* transcript unchanged.
C8_Original ==
    (Turn /\ pre.stage = "FINISHED") =>
        /\ ret = Value(FINISHED_MESSAGE)
        /\ calls = <<>>
        /\ stage = pre.stage
        /\ role = pre.role
        /\ question_count = pre.question_count
        /\ history = pre.history
\* C8 as amended: in FINISHED, every turn returns the same fixed closed-session
\* message, makes no provider call, and leaves stage, role and question_count
\* unchanged; the transcript grows by exactly the user's message of that turn.
C8_Finished ==
    (Turn /\ pre.stage = "FINISHED") =>
        /\ ret = Value(FINISHED_MESSAGE)
        /\ calls = <<>>
        /\ stage = pre.stage
        /\ role = pre.role
        /\ question_count = pre.question_count
        /\ history = WithUserMessage(pre.history, arg)
C8_Witness ==
    /\ Turn /\ pre.stage = "FINISHED"
    /\ pre.history[Len(pre.history)].role = "user"
    /\ ret = Value(FINISHED_MESSAGE)

\* C9: process_input never propagates an error: when the provider call or the
\* parsing of its reply fails inside a turn, the turn returns a text and the
\* stage is the stage before the turn.
C9_NeverPropagates ==
    Turn =>
        /\ ret.kind = "value"
        /\ (\E i \in 1..Len(calls) : calls[i].out.kind = "raise" \/ calls[i].out.val = None)
              => stage = pre.stage

\* A get_response call has ended, and every provider it tried before the
\* offline responder failed with an Exception of one of the failure kinds.
CallDone == op = "get_response" /\ calls # <<>> /\ Current.pc = "done"
EveryProviderFailed ==
    /\ CallDone
    /\ \A i \in 1..Len(Current.attempts) :
          Current.attempts[i].provider # "mock" => Current.attempts[i].outcome \in FailureKinds

\* C10: get_response returns a non-empty text and does not raise when every
\* configured provider fails, whatever the configuration and the failures: the
\* offline responder supplies the result.
C10_OfflineGuarantee ==
    EveryProviderFailed =>
        /\ ret.kind = "value"
        /\ ret.val # None
        /\ Len(ret.val) > 0
        /\ ret.val \in {MockSales, MockEngineer, MockGeneric}
        /\ Current.attempts[Len(Current.attempts)] = MockAtt
C10_Witness ==
    /\ EveryProviderFailed /\ client /\ gemini_configured
    /\ Len(Current.attempts) = 5
    /\ Current.attempts[1] = [provider |-> "openai", outcome |-> "quota"]
    /\ ret = Value(MockEngineer)

\* The attempts of the call in progress or just ended, and those among them
\* that ended in an Exception.
Attempts == Current.attempts
Range(q) == {q[i] : i \in 1..Len(q)}
Failed(k) == Attempts[k].outcome \in FailureKinds
Interrupted == \E k \in 1..Len(Attempts) : Attempts[k].outcome = "interrupt"

\* A transcribe_audio call has ended.
TranscribeDone == op = "transcribe_audio" /\ calls # <<>> /\ Current.pc = "done"

\* C11: when the caller did not pass mock=True and every provider that
\* transcribe_audio tried failed (none tried, when none is configured), the
\* call returns None and not the placeholder transcript.
C11_TranscribeFailure ==
    (TranscribeDone /\ ~ctor.mock /\ \A k \in 1..Len(Attempts) : Failed(k))
        => ret = Value(None)

\* The place of a provider in the chain of get_response.
Rank(p) ==
    CASE p = "openai" -> 0
      [] p = "mock" -> Len(models_to_try) + 1
      [] OTHER -> CHOOSE i \in 1..Len(models_to_try) : models_to_try[i] = p

\* C13: within a get_response call the providers are tried in the order
\* OpenAI, Gemini, offline responder; a provider is tried only after the
\* configured ones before it failed; nothing is tried after a provider has
\* answered; and the call returns a usable (non-empty) text, that of the first
\* provider that gave one.
C13_FirstUsable ==
    (op = "get_response" /\ calls # <<>> /\ ~mock) =>
        /\ \A j, k \in 1..Len(Attempts) :
              j < k => Rank(Attempts[j].provider) < Rank(Attempts[k].provider)
        /\ \A k \in 1..Len(Attempts) :
              /\ Attempts[k].outcome = "ok" => k = Len(Attempts)
              /\ Attempts[k].provider # "openai" /\ client =>
                    Attempts[1].provider = "openai" /\ Failed(1)
              /\ Attempts[k].provider = "mock" /\ gemini_configured =>
                    k > 1 /\ Attempts[k-1].provider \in Range(models_to_try) /\ Failed(k-1)
        /\ (CallDone /\ ~Interrupted) => ret.kind = "value" /\ Truthy(ret.val)

\* The Gemini attempts of the get_response call, in the order made.
GeminiAttempts == SelectSeq(Attempts, LAMBDA a : a.provider \in Range(models_to_try))
GeminiLeft == Current.pc = "gemini" /\ Current.i = Len(GeminiAttempts) + 1

\* C14: the Gemini variants are tried in the order of the list; a failure
\* that names an invalid API key ends the loop at once and leaves the
\* credential error in last_gemini_error; any other failure moves on to the
\* next variant; and when the loop ends without an answer the call returns
\* the offline responder's reply.
C14_GeminiVariants ==
    (op = "get_response" /\ calls # <<>>) =>
        /\ Len(GeminiAttempts) <= Len(models_to_try)
        /\ (GeminiAttempts # <<>> /\ GeminiAttempts[Len(GeminiAttempts)].outcome # "auth")
              => last_gemini_error = None
        /\ \A k \in 1..Len(GeminiAttempts) :
              /\ GeminiAttempts[k].provider = models_to_try[k]
              /\ GeminiAttempts[k].outcome = "auth" =>
                    /\ k = Len(GeminiAttempts)
                    /\ Current.pc # "gemini"
                    /\ last_gemini_error = GEMINI_KEY_ERROR
              /\ GeminiAttempts[k].outcome \in FailureKinds \ {"auth"} =>
                    /\ k < Len(models_to_try) => (k < Len(GeminiAttempts) \/ GeminiLeft)
                    /\ k = Len(models_to_try) => Current.pc \in {"mock", "done"}
              /\ (CallDone /\ k = Len(GeminiAttempts)
                    /\ GeminiAttempts[k].outcome \in FailureKinds) =>
                    /\ Attempts[Len(Attempts)] = MockAtt
                    /\ ret = Value(get_mock_response(Current.req))
C14_Witness ==
    /\ CallDone
    /\ Len(GeminiAttempts) = 2
    /\ GeminiAttempts[1].outcome = "notfound"
    /\ GeminiAttempts[2].outcome = "auth"
    /\ last_gemini_error = GEMINI_KEY_ERROR
    /\ ret = Value(MockSales)

\* C15: when the client was constructed with mock=True, get_response and
\* transcribe_audio try no provider, whatever keys are present:
\* transcribe_audio returns the placeholder transcript and get_response the
\* offline responder's reply.
C15_ExplicitOffline ==
    (ctor.mock /\ op \in {"get_response", "transcribe_audio"} /\ calls # <<>>) =>
        /\ \A k \in 1..Len(Attempts) : Attempts[k] = MockAtt
        /\ TranscribeDone => Attempts = <<>> /\ ret = Value(MOCK_TRANSCRIPTION)
        /\ CallDone => Attempts = <<MockAtt>> /\ ret = Value(get_mock_response(Current.req))
        /\ Current.pc \in {"mock", "done"}
C15_Witness ==
    /\ ctor.mock /\ ctor.api_key /\ ctor.gemini_key /\ ctor.genai_ok
    /\ gemini_configured
    /\ TranscribeDone
    /\ ret = Value(MOCK_TRANSCRIPTION)

\* The attempts of text_to_speech to produce audio: all but the temporary file.
Synthesis(k) == Attempts[k].provider \in {"tts", "gtts"}
SpeechDone == op = "text_to_speech" /\ calls # <<>> /\ Current.pc = "done"

\* C17: text_to_speech tries the OpenAI voice first when the client has one
\* and mock is off; when that fails it goes on to gTTS and returns the path of
\* its audio; it returns None only when no attempt produced audio; and no
\* Exception of a provider makes it raise.
C17_SpeechFallback ==
    (op = "text_to_speech" /\ calls # <<>>) =>
        /\ \A k \in 1..Len(Attempts) :
              /\ Attempts[k].provider = "tts" => ~mock /\ client /\ k = 2
              /\ (Attempts[k].provider = "gtts" /\ ~mock /\ client) =>
                    k = 3 /\ Attempts[2].provider = "tts" /\ Failed(2)
              /\ (Attempts[k].provider = "tts" /\ Failed(k)) =>
                    \/ Current.pc = "gtts" /\ k = Len(Attempts)
                    \/ k < Len(Attempts) /\ Attempts[k+1].provider = "gtts"
              /\ (Synthesis(k) /\ Attempts[k].outcome = "ok") =>
                    SpeechDone /\ k = Len(Attempts) /\ ret = Value(OUTPUT_PATH)
        /\ (Len(Attempts) = 1 /\ Attempts[1].outcome = "ok") =>
              Current.pc = (IF ~mock /\ client THEN "tts" ELSE "gtts")
        /\ (SpeechDone /\ ret = Value(None)) =>
              \A k \in 1..Len(Attempts) : Synthesis(k) => Failed(k)
        /\ (SpeechDone /\ ~Interrupted) => ret.kind = "value"
C17_Witness ==
    /\ SpeechDone
    /\ Len(Attempts) = 3
    /\ Attempts[2] = [provider |-> "tts", outcome |-> "quota"]
    /\ Attempts[3] = [provider |-> "gtts", outcome |-> "ok"]
    /\ ret = Value(OUTPUT_PATH)

SystemFirst(h) == h # <<>> /\ h[1].role = "system"
RolesKnown(h) == \A i \in 1..Len(h) : h[i].role \in {"system", "user", "assistant"}

\* C12: in every state from construction on, through any sequence of start
\* and process_input calls, the first element of a transcript that has one is
\* a system message, and every message's role is one of system, user,
\* assistant.
C12_SystemFirst == (history # <<>> => SystemFirst(history)) /\ RolesKnown(history)

HasSales(u) == Contains(Lower(u), <<"sales">>)
HasEngineer(u) == Contains(Lower(u), <<"engineer">>)
NonExitInterviewTurn == Turn /\ pre.stage = "INTERVIEW" /\ ~IsExit(arg)

\* What C16 says of the turns before the interview and of the exit turn: in
\* ROLE_SELECTION "sales" gives the role Sales Representative, "engineer"
\* without "sales" the role Software Engineer, both with stage INTERVIEW, any
\* other text the generic acknowledgment and the stage as it was; an exit
\* phrase in INTERVIEW ends in FINISHED.
OfflineRoleAndExit ==
    /\ (pre.stage = "ROLE_SELECTION" /\ HasSales(arg)) =>
          role = <<"Sales Representative">> /\ stage = "INTERVIEW"
    /\ (pre.stage = "ROLE_SELECTION" /\ HasEngineer(arg) /\ ~HasSales(arg)) =>
          role = <<"Software Engineer">> /\ stage = "INTERVIEW"
    /\ (pre.stage = "ROLE_SELECTION" /\ ~HasEngineer(arg) /\ ~HasSales(arg)) =>
          stage = "ROLE_SELECTION" /\ role = pre.role /\ ret = Value(MockGeneric)
    /\ (pre.stage = "INTERVIEW" /\ IsExit(arg)) => stage = "FINISHED"

\* C16 as claimed: on the offline responder, the role turns and the exit turn
\* are as above and every non-exit turn of the interview returns the generic
\* acknowledgment.
C16_Original ==
    Turn =>
        /\ OfflineRoleAndExit
        /\ NonExitInterviewTurn => ret = Value(MockGeneric)

\* C16: on the offline responder, the role turns and the exit turn are as
\* above; a non-exit turn of the interview returns the generic acknowledgment
\* when its text holds neither keyword, and the canned confirmation of the
\* keyword it holds otherwise ("sales" first), the role and the stage staying
\* as they were.
C16_OfflineSession ==
    Turn =>
        /\ OfflineRoleAndExit
        /\ NonExitInterviewTurn =>
              /\ stage = "INTERVIEW" /\ role = pre.role
              /\ ret = Value(IF HasSales(arg) THEN MockSales
                             ELSE IF HasEngineer(arg) THEN MockEngineer
                             ELSE MockGeneric)
C16_Witness ==
    /\ Turn /\ pre.stage = "ROLE_SELECTION"
    /\ pre.history = <<Msg("system", SYSTEM_PROMPT), Msg("assistant", GREETING)>>
    /\ arg = <<"SALES", SP, "engineer">>
    /\ role = <<"Sales Representative">>
    /\ stage = "INTERVIEW"

FeedbackRequest == Msg("system", FEEDBACK_PROMPT)
FeedbackRequested ==
    /\ Len(calls) = 1 /\ calls[1].req # <<>>
    /\ calls[1].req[Len(calls[1].req)] = FeedbackRequest
\* The provider call of the last turn was interrupted (a BaseException, which
\* is no failure of a provider).
TurnInterrupted == \E i \in 1..Len(calls) : calls[i].out = Raise("KeyboardInterrupt")

Hinted == \E i \in 1..Len(calls) : Msg("system", WRAP_UP_HINT) \in Range(calls[i].req)

\* C19: the wrap-up hint is in the provider request of a turn exactly when
\* the turn is a non-exit turn of the interview and the counter, once
\* incremented, is greater than max_questions; and a non-exit turn of the
\* interview leaves the stage INTERVIEW however many came before.
C19_WrapUpAdvisory ==
    Turn =>
        /\ Hinted <=> (NonExitInterviewTurn /\ pre.question_count + 1 > max_questions)
        /\ NonExitInterviewTurn =>
              /\ stage = "INTERVIEW"
              /\ question_count = pre.question_count + 1
        /\ (pre.stage = "INTERVIEW" /\ stage # "INTERVIEW") => IsExit(arg)
C19_Witness ==
    /\ NonExitInterviewTurn
    /\ question_count = max_questions + 1
    /\ Hinted
    /\ stage = "INTERVIEW"

Transient == {Msg("system", ROLE_INSTRUCTION), Msg("system", WRAP_UP_HINT)}

\* C20: the transcript never holds the role instruction or the wrap-up hint;
\* the request of a ROLE_SELECTION turn is the transcript with the user's
\* message, plus the role instruction, and the request of an interview turn
\* past max_questions is the transcript with the user's message, plus the
\* wrap-up hint.
C20_TransientInstructions ==
    /\ \A i \in 1..Len(history) : history[i] \notin Transient
    /\ (Turn /\ pre.stage = "ROLE_SELECTION") =>
          /\ Len(calls) = 1
          /\ calls[1].req = Append(WithUserMessage(pre.history, arg),
                                   Msg("system", ROLE_INSTRUCTION))
    /\ (NonExitInterviewTurn /\ question_count > max_questions) =>
          /\ Len(calls) = 1
          /\ calls[1].req = Append(WithUserMessage(pre.history, arg),
                                   Msg("system", WRAP_UP_HINT))
          /\ history = Append(WithUserMessage(pre.history, arg), Msg("assistant", Reply))
C20_Witness ==
    /\ NonExitInterviewTurn
    /\ question_count > max_questions
    /\ calls[1].req[Len(calls[1].req)] = Msg("system", WRAP_UP_HINT)
    /\ Len(history) = Len(pre.history) + 2

\* C21: a turn taken in INTERVIEW leaves INTERVIEW exactly when the
\* lower-cased input contains "end interview", "stop interview", "give me
\* feedback" or "finish"; on such a turn question_count is as before and the
\* one provider call is the feedback call, on the transcript with the user's
\* message and the feedback request.
C21_ExitPhrases ==
    (Turn /\ pre.stage = "INTERVIEW") =>
        /\ stage # "INTERVIEW" <=> ExitPhrase(arg)
        /\ ExitPhrase(arg) =>
              /\ question_count = pre.question_count
              /\ Len(calls) = 1
              /\ calls[1].req = Append(WithUserMessage(pre.history, arg), FeedbackRequest)
C21_Witness ==
    /\ Turn /\ pre.stage = "INTERVIEW"
    /\ arg = <<"I", SP, "am", SP, "Finish", "ed">>
    /\ stage = "FINISHED"
    /\ question_count = pre.question_count
    /\ FeedbackRequested

\* C22: when the reply of a ROLE_SELECTION turn confirms a role, the
\* transcript after the turn is exactly the interviewer prompt for that role
\* and the fixed opening message, the returned text is the opening message and
\* not the reply, and neither the user's message nor the reply is in the
\* transcript.
C22_TranscriptRewritten ==
    (RoleTurn /\ Contains(Reply, MARKER)) =>
        /\ history = <<Msg("system", InterviewerPrompt(role)),
                       Msg("assistant", StartMessage(role))>>
        /\ ret = Value(StartMessage(role))
        /\ ret.val # Reply
        /\ \A i \in 1..Len(history) :
              /\ history[i] # Msg("user", arg)
              /\ history[i].content # Reply
C22_Witness ==
    /\ RoleTurn /\ Reply = ReplyConfirm
    /\ Len(pre.history) >= 4
    /\ Len(history) = 2
    /\ ret = Value(StartMessage(<<"Software Engineer">>))

\* C23: a turn makes at most one get_response call: exactly one when taken in
\* ROLE_SELECTION, exactly one when taken in INTERVIEW, which is the feedback
\* call on an exit phrase and the ordinary one otherwise, and none when taken
\* in FINISHED.
C23_OneCallPerTurn ==
    Turn =>
        /\ Len(calls) <= 1
        /\ pre.stage \in {"ROLE_SELECTION", "INTERVIEW"} => Len(calls) = 1
        /\ pre.stage = "INTERVIEW" => (FeedbackRequested <=> ExitPhrase(arg))
        /\ pre.stage = "FINISHED" => calls = <<>>
C23_Witness ==
    /\ Turn /\ pre.stage = "INTERVIEW" /\ ExitPhrase(arg)
    /\ Len(calls) = 1 /\ FeedbackRequested
    /\ Len(calls[1].attempts) >= 2

C26_ReplyRecorded ==
    (Turn /\ pre.stage \in {"ROLE_SELECTION", "INTERVIEW"} /\ ret.kind = "value") =>
        /\ history # <<>>
        /\ history[Len(history)] = Msg("assistant", ret.val)
C26_Witness ==
    /\ Turn /\ pre.stage = "INTERVIEW" /\ stage = "FINISHED"
    /\ ret = Value(ReplyPlain)
    /\ history[Len(history)] = Msg("assistant", ReplyPlain)
    /\ history[Len(history) - 1] = FeedbackRequest

\* The most attempts a call can make: OpenAI, each Gemini variant, and for
\* get_response the offline responder.
MostAttempts ==
    IF op = "get_response" THEN 1 + Len(models_to_try) + 1
    ELSE 1 + Len(audio_models_to_try)

\* C24: within a get_response or transcribe_audio call no provider and no
\* Gemini variant is tried twice, so the attempts are at most one per provider
\* and variant; and a call that is not over is at a provider it has not tried,
\* with the variants before it tried: every call ends within that many steps,
\* whatever the providers do.
C24_BoundedAttempts ==
    (op \in {"get_response", "transcribe_audio"} /\ calls # <<>>) =>
        /\ \A j, k \in 1..Len(Attempts) :
              j < k => Attempts[j].provider # Attempts[k].provider
        /\ Len(Attempts) <= MostAttempts
        /\ Current.pc # "done" =>
              /\ Len(Attempts) < MostAttempts
              /\ Current.pc \in {"openai", "whisper"} => Attempts = <<>>
              /\ Current.pc = "gemini" =>
                    /\ Current.i \in 1..Len(models_to_try)
                    /\ Len(GeminiAttempts) = Current.i - 1
              /\ Current.pc = "gemini_audio" =>
                    /\ Current.i \in 1..Len(audio_models_to_try)
                    /\ Len(GeminiAttempts) = Current.i - 1
              /\ Current.pc = "mock" =>
                    \A k \in 1..Len(Attempts) : Attempts[k].provider # "mock"
C24_Witness ==
    /\ TranscribeDone /\ client /\ gemini_configured
    /\ Len(Attempts) = 1 + Len(audio_models_to_try)
    /\ \A k \in 1..Len(Attempts) : Failed(k)
    /\ ret = Value(None)

\* The call entered the Gemini step: Gemini is configured, mock is off, and
\* the OpenAI attempt, when there is a client, has failed.
GeminiDispatched ==
    /\ ~mock /\ gemini_configured
    /\ client => (Attempts # <<>> /\ Failed(1))
AuthFailure == \E k \in 1..Len(GeminiAttempts) : GeminiAttempts[k].outcome = "auth"

\* C27: during and after a get_response or transcribe_audio call that entered
\* the Gemini step, last_gemini_error is the credential error when a variant
\* failed on an invalid key in this call and None otherwise, whatever it was
\* before the call; a call that did not enter the Gemini step leaves it as it
\* was.
C27_LastGeminiError ==
    /\ (op \in {"get_response", "transcribe_audio"} /\ calls # <<>>) =>
          IF GeminiDispatched
          THEN last_gemini_error = (IF AuthFailure THEN GEMINI_KEY_ERROR ELSE None)
          ELSE last_gemini_error = pre.err
    /\ op = "text_to_speech" => last_gemini_error = pre.err
C27_Witness ==
    /\ TranscribeDone /\ GeminiDispatched
    /\ pre.err = GEMINI_KEY_ERROR
    /\ ~AuthFailure
    /\ last_gemini_error = None

====
